---- MODULE Spec2Model ----
(***************************************************************************)
(* Model of src/utils/build.utils.ts (package-build-stats): the entry     *)
(* point synthesizer, the missing-module classifier, buildPackage and the *)
(* retry controller buildPackageIgnoringMissingDeps.                      *)
(*                                                                         *)
(* Text is modelled as a sequence of items.  A package name or an import  *)
(* path is a sequence of one-character strings; a compiler message or an  *)
(* asset file name is a sequence of tokens, where the tokens the code's   *)
(* regular expressions look for (OPEN, CLOSE, BUNDLE, ...) are single     *)
(* items.  An optional value is a sequence of length 0 (absent) or 1.     *)
(***************************************************************************)
EXTENDS Integers, Sequences, FiniteSets, TLC

\* pc            where the call of buildPackageIgnoringMissingDeps stands
\* request       the arguments of the call
\* externalsObj  the caller's externals object, as it is now
\* buildIteration, caught    the locals buildIteration and e (once in the
\*               catch block's rebuild) of the controller
\* buildArgs     the arguments of every buildPackage call so far
\* compileArgs   the arguments of every compilePackage call so far
\* writes        the entry files written so far, in order
\* telemetry     the Telemetry.buildPackage records so far
\* compiled      what the compiler called back with in the latest
\*               buildPackage call ({stats, error, memoryFileSystem})
\* pending       the assets of a buildPackage awaiting getDependencySizes
\* settled       how every finished buildPackage call ended
\* result, thrown    what the call returned or threw
VARIABLES pc, request, externalsObj, buildIteration, caught, buildArgs,
          compileArgs, writes, telemetry, compiled, pending, settled,
          result, thrown

vars == <<pc, request, externalsObj, buildIteration, caught, buildArgs,
          compileArgs, writes, telemetry, compiled, pending, settled,
          result, thrown>>

\* ------------------------------------------------------------------ bounds

\* longest list of compiler errors the compiler reports (short lists)
MaxErrors == 2
\* longest list of assets the compiler emits
MaxAssets == 2

\* ------------------------------------------------------------- optionals

Absent == <<>>
Some(v) == <<v>>
IsSome(o) == Len(o) = 1

\* ---------------------------------------------------------------- helpers

Range(s) == {s[i] : i \in 1..Len(s)}

SeqsUpTo(S, n) == UNION {[1..k -> S] : k \in 0..n}

startsWith(s, prefix) ==
    /\ Len(prefix) <= Len(s)
    /\ SubSeq(s, 1, Len(prefix)) = prefix

\* Array.from(new Set(xs)): the distinct elements, in first-seen order
RECURSIVE Unique(_)
Unique(xs) ==
    IF xs = <<>> THEN <<>>
    ELSE LET init == Unique(SubSeq(xs, 1, Len(xs) - 1))
             last == xs[Len(xs)]
         IN  IF last \in Range(init) THEN init ELSE Append(init, last)

\* Array.prototype.filter
Filter(xs, keep(_)) ==
    LET F[i \in 0..Len(xs)] ==
            IF i = 0 THEN <<>>
            ELSE IF keep(xs[i]) THEN Append(F[i - 1], xs[i]) ELSE F[i - 1]
    IN  F[Len(xs)]

\* ----------------------------------------------------------------- errors

\* A CustomError: its kind, what it wraps (a list of texts), and
\* (MissingDependencyError only) the missing modules of its extra data.
CustomError(kind, originalError, missingModules) ==
    [kind |-> kind, originalError |-> originalError,
     missingModules |-> missingModules]

EntryPointError(orig) == CustomError("EntryPointError", orig, <<>>)
BuildError(orig) == CustomError("BuildError", orig, <<>>)
CLIBuildError(orig) == CustomError("CLIBuildError", orig, <<>>)
UnexpectedBuildError(orig) == CustomError("UnexpectedBuildError", orig, <<>>)
MissingDependencyError(orig, extra) ==
    CustomError("MissingDependencyError", orig, extra.missingModules)
\* a runtime TypeError of the language, not a CustomError
TypeError(orig) == CustomError("TypeError", orig, <<>>)

\* ------------------------------------------------- _parseMissingModules

OPEN == "Can't resolve '"
CLOSE == "' in"
ModuleNotFound == "ModuleNotFoundError"

\* err.toString() of a compiler error: its name, then its message
ErrToString(err) == <<err.name, ": ">> \o err.error

Least(S) == CHOOSE x \in S : \A y \in S : x <= y
Greatest(S) == CHOOSE x \in S : \A y \in S : y <= x

\* the group of the match that starts at the OPEN at i: greedy, so it runs
\* to the last CLOSE
GroupFrom(msg, i) ==
    SubSeq(msg, i + 1,
           Greatest({j \in (i + 2)..Len(msg) : msg[j] = CLOSE}) - 1)

FirstOrAbsent(msg, starts) ==
    IF starts = {} THEN Absent ELSE Some(GroupFrom(msg, Least(starts)))

\* /Can't resolve '(.+)' in/ : leftmost OPEN that has a CLOSE at least two
\* items later.  The result is the optional group 1.
MissingModuleRegex(msg) ==
    FirstOrAbsent(msg, {i \in 1..Len(msg) :
                          /\ msg[i] = OPEN
                          /\ \E j \in (i + 2)..Len(msg) : msg[j] = CLOSE})

\* the end of the maximal run of non-'/' items of p that starts at i
\* (i - 1 when the run is empty)
RunEnd(p, i) ==
    CHOOSE j \in (i - 1)..Len(p) :
        /\ \A k \in i..j : p[k] # "/"
        /\ j = Len(p) \/ p[j + 1] = "/"

\* '@', then a non-empty run ending at e, then '/', then a non-empty run
ScopedEndsAt(p, i, e) ==
    /\ e >= i + 1
    /\ e < Len(p)
    /\ RunEnd(p, e + 2) >= e + 2

ScopedMatchesAt(p, i) == p[i] = "@" /\ ScopedEndsAt(p, i, RunEnd(p, i + 1))

ScopedFrom(p, i) == SubSeq(p, i, RunEnd(p, RunEnd(p, i + 1) + 2))

ScopedFirst(p, starts) ==
    IF starts = {} THEN Absent ELSE Some(ScopedFrom(p, Least(starts)))

\* /@[^\/]+\/[^\/]+/ : optional match
ScopedNameRegex(p) ==
    ScopedFirst(p, {i \in 1..Len(p) : ScopedMatchesAt(p, i)})

SegmentFirst(p, starts) ==
    IF starts = {} THEN Absent
    ELSE Some(SubSeq(p, Least(starts), RunEnd(p, Least(starts))))

\* /[^\/]+/ : optional match
FirstSegmentRegex(p) == SegmentFirst(p, {i \in 1..Len(p) : p[i] # "/"})

\* a value or a thrown error
Ok(v) == [ok |-> TRUE, value |-> v, error |-> CustomError("none", <<>>, <<>>)]
Fail(e) == [ok |-> FALSE, value |-> <<>>, error |-> e]

\* lines 160-166
PackageNameResult(packageNameMatch) ==
    IF ~IsSome(packageNameMatch)
    THEN Fail(UnexpectedBuildError(<<<<"no package name">>>>))
    ELSE Ok(packageNameMatch[1])

\* lines 152-158
PackageNameOf(missingFilePath) ==
    PackageNameResult(IF startsWith(missingFilePath, <<"@">>)
                      THEN ScopedNameRegex(missingFilePath)
                      ELSE FirstSegmentRegex(missingFilePath))

\* lines 146-152
MatchResult(matches) ==
    IF ~IsSome(matches)
    THEN Fail(UnexpectedBuildError(<<<<"no file path in error">>>>))
    ELSE PackageNameOf(matches[1])

\* the callback of missingModuleErrors.map
ParseOneMissingModule(err) == MatchResult(MissingModuleRegex(err.error))

isMissingModuleError(error) == error.name = ModuleNotFound

\* lines 170-172: drop what starts with the first name and a '/'
DropSubPaths(uniqueMissingModules) ==
    LET notSubPath(mod) ==
            ~startsWith(mod, uniqueMissingModules[1] \o <<"/">>)
    IN  Filter(uniqueMissingModules, notSubPath)

MappedResultPartial(parsed, bad) ==
    Ok(DropSubPaths(Unique([i \in 1..Len(parsed) |-> parsed[i].value])))

\* the map has run over every error: the first throw wins
MappedResult(parsed, bad) ==
    IF bad # {}
    THEN Fail(parsed[Least(bad)].error)
    ELSE Ok(DropSubPaths(Unique([i \in 1..Len(parsed) |-> parsed[i].value])))

Mapped(parsed) == MappedResult(parsed, {i \in 1..Len(parsed) : ~parsed[i].ok})

ParseMissing(missingModuleErrors) ==
    IF missingModuleErrors = <<>>
    THEN Ok(<<>>)
    ELSE Mapped([i \in 1..Len(missingModuleErrors) |->
                   ParseOneMissingModule(missingModuleErrors[i])])

parseMissingModulesAll(errors) == ParseMissing(errors)

\* lines 131-175
parseMissingModules(errors) ==
    ParseMissing(Filter(errors, isMissingModuleError))

\* ------------------------------------------------------ createEntryPoint

DefaultEntryFilename == "index.js"

\* the path and the source text createEntryPoint writes.  customImports is
\* tested for truthiness, and every array is truthy.
createEntryPoint(packageName, installPath, options) ==
    [path |-> <<installPath,
                IF IsSome(options.entryFilename)
                   /\ options.entryFilename[1] # ""
                THEN options.entryFilename[1]
                ELSE DefaultEntryFilename>>,
     content |-> IF IsSome(options.customImports)
                 THEN [esm |-> options.esm, form |-> "named",
                       names |-> options.customImports[1], pkg |-> packageName]
                 ELSE [esm |-> options.esm, form |-> "default",
                       names |-> <<>>, pkg |-> packageName]]

\* ---------------------------------------------- buildPackage: the entries

EntryCallsUnsplit(args) ==
    <<[key |-> "main",
       file |-> createEntryPoint(args.name, args.installPath,
                  [esm |-> FALSE,
                   customImports |-> args.options.customImports,
                   entryFilename |-> Absent])]>>

\* the createEntryPoint calls of one buildPackage call, in order
EntryCalls(args) ==
    LET options == args.options
    IN  IF options.splitCustomImports
        THEN IF ~IsSome(options.customImports) \/ options.customImports[1] = <<>>
             THEN <<>>
             ELSE [i \in 1..Len(options.customImports[1]) |->
                     [key |-> options.customImports[1][i],
                      file |-> createEntryPoint(args.name, args.installPath,
                                 [customImports |-> Some(<<options.customImports[1][i]>>),
                                  entryFilename |-> Some(options.customImports[1][i]),
                                  esm |-> TRUE])]]
        ELSE <<[key |-> "main",
                file |-> createEntryPoint(args.name, args.installPath,
                           [esm |-> FALSE,
                            customImports |-> options.customImports,
                            entryFilename |-> Absent])]>>

\* the entry map after the first done calls: a later call for a key
\* overwrites an earlier one
EntryMap(calls, done) ==
    [k \in {calls[i].key : i \in 1..done} |->
        calls[Greatest({i \in 1..done : calls[i].key = k})].file.path]

EntriesNoEarlyReturn(options, calls, fails, done) ==
    [status |-> IF fails THEN "failed" ELSE "ok",
     entry |-> EntryMap(calls, done),
     written |-> [i \in 1..done |-> calls[i].file],
     error |-> EntryPointError(<<<<"write failed">>>>)]

Entries(options, calls, fails, done) ==
    [status |-> IF options.splitCustomImports /\ calls = <<>>
                THEN "short"
                ELSE IF fails THEN "failed" ELSE "ok",
     entry |-> EntryMap(calls, done),
     written |-> [i \in 1..done |-> calls[i].file],
     error |-> EntryPointError(<<<<"write failed">>>>)]

EntriesOfIgnoringFailure(options, calls, failAt) ==
    Entries(options, calls, FALSE,
            IF failAt \in 1..Len(calls) THEN failAt - 1 ELSE Len(calls))

EntriesOf(options, calls, failAt) ==
    Entries(options, calls, failAt \in 1..Len(calls),
            IF failAt \in 1..Len(calls) THEN failAt - 1 ELSE Len(calls))

\* Lines 183-201.  failAt is the index of the writeFileSync call that
\* throws (0: none does).  status is "short" (the early return), "failed"
\* (EntryPointError) or "ok" (the entry map is complete).
BuildEntries(args, failAt) == EntriesOf(args.options, EntryCalls(args), failAt)

\* -------------------------------------------- buildPackage: the outcome

BUNDLE == ".bundle."
LICENSE == "LICENSE.txt"
HashError == "Unexpected character '#'"

\* gzipSync(bundleContents, {}).length and getParseTime(bundleContents):
\* collaborators, given by their value on each bundle
GzipLength(bundleContents) == bundleContents.gzipBytes
getParseTime(bundleContents) == bundleContents.parseTime

SplitAtFirst(assetName, cuts) ==
    IF cuts = {} THEN Absent
    ELSE Some([entryName |-> SubSeq(assetName, 1, Least(cuts) - 1),
               extension |-> SubSeq(assetName, Least(cuts) + 1,
                                    Len(assetName))])

\* /(.+?)\.bundle\.(.+)$/ : the first BUNDLE that has something before it
\* and something after it splits the name; optional [entryName, extension]
BundleRegex(assetName) ==
    SplitAtFirst(assetName,
                 {i \in 2..(Len(assetName) - 1) : assetName[i] = BUNDLE})

endsWithLicense(assetName) ==
    assetName # <<>> /\ assetName[Len(assetName)] = LICENSE

AssetStatsGzipIsSize(asset, parseTimes, gzip, matches) ==
    IF ~IsSome(matches)
    THEN Fail(UnexpectedBuildError(<<<<"no .bundle suffix">> \o asset.name>>))
    ELSE Ok([name |-> matches[1].entryName,
             type |-> matches[1].extension,
             size |-> asset.size,
             gzip |-> asset.size,
             parse |-> parseTimes])

\* lines 291-307
AssetStats(asset, parseTimes, gzip, matches) ==
    IF ~IsSome(matches)
    THEN Fail(UnexpectedBuildError(<<<<"no .bundle suffix">> \o asset.name>>))
    ELSE Ok([name |-> matches[1].entryName,
             type |-> matches[1].extension,
             size |-> asset.size,
             gzip |-> gzip,
             parse |-> parseTimes])

getAssetStats(asset, options) ==
    AssetStats(asset,
               IF options.calcParse
               THEN Some(getParseTime(asset.contents)) ELSE Absent,
               GzipLength(asset.contents),
               BundleRegex(asset.name))

notRuntime(asset) == "runtime" \notin Range(asset.chunkNames)
notLicense(asset) == ~endsWithLicense(asset.name)

SurvivingAssetsUnfiltered(assets) == assets

\* lines 311-314: the two filters
SurvivingAssets(assets) == Filter(Filter(assets, notRuntime), notLicense)

\* lines 254-263: the error for a non-empty list of missing modules
MissingModulesErrorAnyFirst(name, missingModules, strings) ==
    IF missingModules[1] = name
    THEN EntryPointError(strings)
    ELSE MissingDependencyError(strings, [missingModules |-> missingModules])

MissingModulesError(name, missingModules, strings) ==
    IF Len(missingModules) = 1 /\ missingModules[1] = name
    THEN EntryPointError(strings)
    ELSE MissingDependencyError(strings, [missingModules |-> missingModules])

\* what buildPackage does next: throw, return, or await getDependencySizes
\* with the assets in hand
Throw(e) == [status |-> "throw", error |-> e, value |-> [assets |-> <<>>]]
Return(v) == [status |-> "return", value |-> v,
              error |-> CustomError("none", <<>>, <<>>)]
AwaitSizes(v) == [status |-> "sizes", value |-> v,
                  error |-> CustomError("none", <<>>, <<>>)]

\* lines 264-278: compiler-level errors, none of them a missing module
OtherErrors(jsonErrors) ==
    IF jsonErrors # <<>>
    THEN IF \E i \in 1..Len(jsonErrors) : HashError \in Range(jsonErrors[i])
         THEN Throw(CLIBuildError(jsonErrors))
         ELSE Throw(BuildError(jsonErrors))
    ELSE Throw(UnexpectedBuildError(<<<<"stats unexpectedly empty">>>>))

ClassifiedHashFirst(name, outcome, parsed) ==
    IF ~parsed.ok THEN Throw(parsed.error)
    ELSE IF \E i \in 1..Len(outcome.jsonErrors) :
                HashError \in Range(outcome.jsonErrors[i])
    THEN Throw(CLIBuildError(outcome.jsonErrors))
    ELSE IF parsed.value # <<>>
    THEN Throw(MissingModulesError(name, parsed.value,
                 [i \in 1..Len(outcome.compErrors) |->
                    ErrToString(outcome.compErrors[i])]))
    ELSE OtherErrors(outcome.jsonErrors)

\* lines 249-278, parsed being what _parseMissingModules gave
Classified(name, outcome, parsed) ==
    IF ~parsed.ok THEN Throw(parsed.error)
    ELSE IF parsed.value # <<>>
    THEN Throw(MissingModulesError(name, parsed.value,
                 [i \in 1..Len(outcome.compErrors) |->
                    ErrToString(outcome.compErrors[i])]))
    ELSE OtherErrors(outcome.jsonErrors)

\* lines 310-328, stats being getAssetStats of every surviving asset
AssetsResult(options, stats, bad) ==
    IF bad # {}
    THEN Throw(stats[Least(bad)].error)
    ELSE IF options.includeDependencySizes
    THEN AwaitSizes([assets |-> [i \in 1..Len(stats) |-> stats[i].value]])
    ELSE Return([assets |-> [i \in 1..Len(stats) |-> stats[i].value]])

MappedAssets(options, stats) ==
    AssetsResult(options, stats, {i \in 1..Len(stats) : ~stats[i].ok})

CleanBuild(options, surviving) ==
    MappedAssets(options, [i \in 1..Len(surviving) |->
                             getAssetStats(surviving[i], options)])

\* Lines 212-329, from the compiler's callback to the return, the throw or
\* the await of getDependencySizes
InterpretOutcome(args, outcome) ==
    IF ~outcome.hasStats
    THEN \* stats.toJson(...) on an absent stats object
         Throw(TypeError(<<<<"Cannot read property 'toJson' of undefined">>>>))
    ELSE IF outcome.jsonNull
    THEN Throw(UnexpectedBuildError(<<<<"json stats null">>>>))
    ELSE IF IsSome(outcome.error) /\ ~outcome.hasStats
    THEN Throw(BuildError(outcome.error))
    ELSE IF outcome.compErrors # <<>>
    THEN Classified(args.name, outcome, parseMissingModules(outcome.compErrors))
    ELSE CleanBuild(args.options,
                    IF IsSome(outcome.assets)
                    THEN SurvivingAssets(outcome.assets[1]) ELSE <<>>)

\* -------------------------------------- buildPackageIgnoringMissingDeps

\* e.missingModules.length <= MissingLimit
MissingLimit == 6

Letters == <<"c", "d", "e", "f", "g", "h", "i", "j", "k">>
UrlSafe == Range(Letters) \cup {"a", "b", "x", "n", "s", ".", "_", "-"}

\* is-valid-npm-name, a collaborator: a pure predicate on a name.  A name
\* is url-safe text that does not start with '.' or '_', or '@scope/name'
\* with both parts such text.
ValidPlainName(mod) ==
    /\ mod # <<>>
    /\ Range(mod) \subseteq UrlSafe
    /\ mod[1] \notin {".", "_"}

isValidNPMName(mod) ==
    \/ ValidPlainName(mod)
    \/ /\ mod # <<>>
       /\ mod[1] = "@"
       /\ \E i \in 3..(Len(mod) - 1) :
             /\ mod[i] = "/"
             /\ ValidPlainName(SubSeq(mod, 2, i - 1))
             /\ ValidPlainName(SubSeq(mod, i + 1, Len(mod)))

RetryEligibleBelowLimit(e) ==
    /\ e.kind = "MissingDependencyError"
    /\ Len(e.missingModules) < MissingLimit
    /\ \A i \in 1..Len(e.missingModules) : isValidNPMName(e.missingModules[i])

\* lines 354-358: the condition of the retry
RetryEligible(e) ==
    /\ e.kind = "MissingDependencyError"
    /\ Len(e.missingModules) <= MissingLimit
    /\ \A i \in 1..Len(e.missingModules) : isValidNPMName(e.missingModules[i])

WidenExternalsInPlace(externals, missingModules) ==
    [newExternals |-> [externals EXCEPT
                         !.externalPackages = @ \o missingModules],
     externals |-> [externals EXCEPT
                         !.externalPackages = @ \o missingModules]]

\* lines 360-363: the externals of the retry, and the caller's externals
\* object as the statement leaves it
WidenExternals(externals, missingModules) ==
    [newExternals |-> [externals EXCEPT
                         !.externalPackages = @ \o missingModules],
     externals |-> externals]

\* Telemetry.buildPackage(name, success, startTime, {...options,
\* buildIteration[, missingModules]}[, error])
BuildTelemetry(name, success, options, iteration, missingModules, error) ==
    [name |-> name, success |-> success, options |-> options,
     buildIteration |-> iteration, missingModules |-> missingModules,
     error |-> error]

\* The program state as one record, so that a handler is a function on it.
State == [pc |-> pc, request |-> request, externalsObj |-> externalsObj,
          buildIteration |-> buildIteration, caught |-> caught,
          buildArgs |-> buildArgs, compileArgs |-> compileArgs,
          writes |-> writes, telemetry |-> telemetry, compiled |-> compiled,
          pending |-> pending, settled |-> settled,
          result |-> result, thrown |-> thrown]

\* how a buildPackage call ended: with a value or with an error
NoError == CustomError("none", <<>>, <<>>)
NoResult == [assets |-> <<>>]
Settled(ok, value, error) == [ok |-> ok, value |-> value, error |-> error]

RebuiltResultBare(missingModules, rebuiltResult) == rebuiltResult

\* lines 382-385: { ignoredMissingDependencies: missingModules, ...rebuiltResult }
RebuiltResult(missingModules, rebuiltResult) ==
    rebuiltResult @@ [ignoredMissingDependencies |-> missingModules]

\* buildPackage returned value to the controller (lines 347-351, 376-385)
Returned(s, value) ==
    IF ~IsSome(s.caught)
    THEN [s EXCEPT !.settled = Append(@, Settled(TRUE, value, NoError)),
                   !.telemetry = Append(@, BuildTelemetry(s.request.name,
                                     TRUE, s.request.options,
                                     s.buildIteration, Absent, Absent)),
                   !.result = Some(value),
                   !.pc = "returned"]
    ELSE [s EXCEPT !.settled = Append(@, Settled(TRUE, value, NoError)),
                   !.telemetry = Append(@, BuildTelemetry(s.request.name,
                                     TRUE, s.request.options,
                                     s.buildIteration,
                                     Some(s.caught[1].missingModules), Absent)),
                   !.result = Some(RebuiltResult(s.caught[1].missingModules,
                                                 value)),
                   !.pc = "returned"]

\* lines 203-210: compilePackage is called and awaited
AwaitCompile(s, args, built) ==
    [s EXCEPT !.buildArgs = Append(@, args),
              !.compiled = Absent,
              !.writes = @ \o built.written,
              !.pc = "compiling",
              !.compileArgs = Append(@,
                  [name |-> args.name, entry |-> built.entry,
                   externals |-> args.externals,
                   debug |-> args.options.debug,
                   minifier |-> args.options.minifier])]

\* buildPackage ended before it reached the compiler
EndedEarly(s, args, built) ==
    [s EXCEPT !.buildArgs = Append(@, args),
              !.compiled = Absent,
              !.writes = @ \o built.written]

Started(s, args, built) ==
    IF built.status = "ok"
    THEN [status |-> "await", error |-> built.error,
          s |-> AwaitCompile(s, args, built)]
    ELSE [status |-> built.status, error |-> built.error,
          s |-> EndedEarly(s, args, built)]

\* lines 177-210: buildPackage is called with args; it runs to its early
\* return, to the EntryPointError of a failed write, or to the await of
\* compilePackage.  status tells which; s is the state it leaves.
StartBuild(s, args, failAt) == Started(s, args, BuildEntries(args, failAt))

RethrownFirst(s, e) ==
    [s EXCEPT !.settled = Append(@, Settled(FALSE, NoResult, e)),
              !.thrown = s.caught,
              !.pc = "threw"]

\* an error thrown inside the catch block leaves the function
Rethrown(s, e) ==
    [s EXCEPT !.settled = Append(@, Settled(FALSE, NoResult, e)),
              !.thrown = Some(e),
              !.pc = "threw"]

RebuildingUnsettled(rebuild) ==
    CASE rebuild.status = "await" -> rebuild.s
      [] rebuild.status = "short" -> Returned(rebuild.s, [assets |-> <<>>])
      [] OTHER -> [rebuild.s EXCEPT !.pc = "rebuilding"]

\* the rebuild has started (lines 369-374)
Rebuilding(rebuild) ==
    CASE rebuild.status = "await" -> rebuild.s
      [] rebuild.status = "short" -> Returned(rebuild.s, [assets |-> <<>>])
      [] OTHER -> Rethrown(rebuild.s, rebuild.error)

\* lines 359-374
Rebuild(s, e, widened, failAt) ==
    Rebuilding(StartBuild([s EXCEPT !.caught = Some(e),
                                    !.externalsObj = widened.externals],
                          [name |-> s.request.name,
                           externals |-> widened.newExternals,
                           installPath |-> s.request.installPath,
                           options |-> s.request.options],
                          failAt))

\* lines 354-398, buildIteration being incremented already
Handle(s, e, failAt) ==
    IF RetryEligible(e)
    THEN Rebuild(s, e, WidenExternals(s.externalsObj, e.missingModules), failAt)
    ELSE [s EXCEPT !.telemetry = Append(@, BuildTelemetry(s.request.name,
                                       FALSE, s.request.options,
                                       s.buildIteration, Absent, Some(e))),
                   !.thrown = Some(e),
                   !.pc = "threw"]

CaughtNoIncrement(s, e, failAt) == Handle(s, e, failAt)

\* the body of the catch block, lines 353-398, up to the return, the throw
\* or the await of the rebuild's compilePackage
Caught(s, e, failAt) ==
    Handle([s EXCEPT !.buildIteration = @ + 1], e, failAt)

ThrewAlwaysCaught(s, e, failAt) ==
    Caught([s EXCEPT !.settled = Append(@, Settled(FALSE, NoResult, e))],
           e, failAt)

\* buildPackage threw e to the controller: into the catch block from the
\* try block, out of the function from the catch block
Threw(s, e, failAt) ==
    IF ~IsSome(s.caught)
    THEN Caught([s EXCEPT !.settled = Append(@, Settled(FALSE, NoResult, e))],
                e, failAt)
    ELSE Rethrown(s, e)

\* the first buildPackage call has started (lines 341-346)
Building(first, failAt) ==
    CASE first.status = "await" -> first.s
      [] first.status = "short" -> Returned(first.s, [assets |-> <<>>])
      [] OTHER -> Threw(first.s, first.error, failAt)

\* lines 337-346: the call, up to its first await or its end
CallBuild(s, req, failAt) ==
    Building(StartBuild([s EXCEPT !.request = req,
                                  !.externalsObj = req.externals,
                                  !.buildIteration = 1],
                        req, failAt),
             failAt)

\* buildPackage goes on after the compiler's result
Continue(s, res, failAt) ==
    CASE res.status = "throw" -> Threw(s, res.error, failAt)
      [] res.status = "sizes" -> [s EXCEPT !.pc = "sizing",
                                           !.pending = Some(res.value)]
      [] OTHER -> Returned(s, res.value)

\* the compiler's callback resolves the promise buildPackage awaits
CompileDone(s, outcome, failAt) ==
    Continue([s EXCEPT !.compiled = Some(outcome)],
             InterpretOutcome(s.buildArgs[Len(s.buildArgs)], outcome),
             failAt)

\* getDependencySizes settles (lines 321-327)
SizesDone(s, sizes, failAt) ==
    IF sizes.ok
    THEN Returned([s EXCEPT !.pending = Absent],
                  s.pending[1] @@ [dependencySizes |-> sizes.value])
    ELSE Threw([s EXCEPT !.pending = Absent], sizes.error, failAt)

\* ----------------------------------------------------------------- inputs

InstallPath == "/install"

PackageNames == {<<"a">>, <<"c">>}

CallerExternals ==
    {[externalPackages |-> <<>>, externalBuiltIns |-> <<"fs">>],
     [externalPackages |-> <<<<"x">>>>, externalBuiltIns |-> <<"fs">>]}

BuildOptions(split, imports, calcParse, sizes) ==
    [splitCustomImports |-> split, customImports |-> imports,
     calcParse |-> calcParse, includeDependencySizes |-> sizes,
     debug |-> FALSE, minifier |-> "terser"]

OptionsSet ==
    {BuildOptions(FALSE, Absent, FALSE, FALSE),
     BuildOptions(FALSE, Some(<<>>), TRUE, FALSE),
     BuildOptions(FALSE, Some(<<"i", "j">>), FALSE, TRUE),
     BuildOptions(TRUE, Absent, FALSE, FALSE),
     BuildOptions(TRUE, Some(<<>>), TRUE, TRUE),
     BuildOptions(TRUE, Some(<<"i", "j">>), TRUE, TRUE)}

Requests ==
    [name : PackageNames, installPath : {InstallPath},
     externals : CallerExternals, options : OptionsSet]

\* which writeFileSync call of a buildPackage call may throw: none (0) or
\* any one of them
FailPoints(args) == 0..Len(EntryCalls(args))

\* the same for the rebuild that follows when buildPackage throws e (no
\* write is attempted when there is no rebuild)
RebuildFailPoints(s, e) ==
    IF ~IsSome(s.caught) /\ RetryEligible(e)
    THEN FailPoints(s.request) ELSE {0}

\* a 'module not found' error of the compiler for an import path
NotFound(path) ==
    [name |-> ModuleNotFound,
     error |-> <<"Module not found: Error: ", OPEN>> \o path
                 \o <<CLOSE, " '/install'">>]

ErrorAtoms ==
    {NotFound(<<"a">>),
     NotFound(<<"c", "/", "x">>),
     NotFound(<<".", "/", "x">>),
     [name |-> ModuleNotFound, error |-> <<"Module not found">>],
     [name |-> "ModuleParseError",
      error |-> <<"Module parse failed: ", HashError>>]}

\* n errors for n different installable names
ManyMissing(n) == [i \in 1..n |-> NotFound(<<Letters[i]>>)]

\* import paths of a scoped package, of a scope alone, and an absolute path
ScopedPath == <<"@", "s", "/", "n", "/", "x">>
ScopeOnlyPath == <<"@", "s">>
AbsolutePath == <<"/", "@", "s">>

\* an error of another kind whose message cites an unresolved import
ParseErrorCiting(path) ==
    [name |-> "ModuleParseError", error |-> NotFound(path).error]

\* lists with scoped, malformed and absolute import paths
PathErrorLists ==
    {<<NotFound(ScopedPath), NotFound(<<"c", "/", "x">>)>>,
     <<NotFound(ScopedPath), NotFound(AbsolutePath)>>,
     <<NotFound(AbsolutePath), NotFound(ScopedPath)>>,
     <<NotFound(<<"a">>), NotFound(ScopeOnlyPath)>>,
     <<ParseErrorCiting(<<"x">>), NotFound(<<"c", "/", "x">>)>>,
     <<ParseErrorCiting(<<"x">>)>>}

CompilationErrorLists ==
    (SeqsUpTo(ErrorAtoms, MaxErrors) \ {<<>>})
        \cup {ManyMissing(MissingLimit), ManyMissing(MissingLimit + 1)}
        \cup PathErrorLists

JsonErrorLists ==
    {<<>>,
     <<<<"plain error">>>>,
     <<<<"plain error">>, <<"Module parse failed: ", HashError>>>>}

BundleA == [id |-> "A", gzipBytes |-> 400, parseTime |-> 7]
BundleB == [id |-> "B", gzipBytes |-> 20, parseTime |-> 3]

Asset(name, chunkNames, size, contents) ==
    [name |-> name, chunkNames |-> chunkNames, size |-> size,
     contents |-> contents]

AssetAtoms ==
    {Asset(<<"main", BUNDLE, "js">>, <<"main">>, 1000, BundleA),
     Asset(<<"runtime", BUNDLE, "js">>, <<"runtime">>, 50, BundleB),
     Asset(<<"main", ".", LICENSE>>, <<"main">>, 50, BundleB),
     Asset(<<"stats.json">>, <<>>, 50, BundleB),
     Asset(<<"stats.json">>, <<"main", "runtime">>, 50, BundleB),
     Asset(<<"a", BUNDLE, "b", BUNDLE, "css">>, <<"main">>, 50, BundleB),
     Asset(<<BUNDLE, "js">>, <<"main">>, 1000, BundleA)}

WebpackErr == <<"compiler failed to run">>

CompileOutcome(error, hasStats, jsonNull, compErrors, jsonErrors, assets) ==
    [error |-> error, hasStats |-> hasStats, jsonNull |-> jsonNull,
     compErrors |-> compErrors, jsonErrors |-> jsonErrors, assets |-> assets]

\* what the compiler may call back with: no stats (with or without an
\* error), stats without a JSON summary, stats with compiler-level errors,
\* stats of a clean build
CompileOutcomes ==
    {CompileOutcome(e, FALSE, FALSE, <<>>, <<>>, Absent) :
        e \in {Absent, Some(WebpackErr)}}
    \cup {CompileOutcome(Absent, TRUE, TRUE, <<>>, <<>>, Absent)}
    \cup {CompileOutcome(Absent, TRUE, FALSE, ce, je, Some(<<>>)) :
            ce \in CompilationErrorLists, je \in JsonErrorLists}
    \cup {CompileOutcome(Absent, TRUE, FALSE, <<>>, <<>>, a) :
            a \in {Absent} \cup {Some(l) : l \in SeqsUpTo(AssetAtoms, MaxAssets)}}
    \cup {CompileOutcome(Some(WebpackErr), TRUE, FALSE, <<>>, <<>>, Some(<<>>))}

SizesOutcomes ==
    {[ok |-> TRUE, value |-> "tree", error |-> TypeError(<<>>)],
     [ok |-> FALSE, value |-> "none",
      error |-> CustomError("Error", <<<<"size tree failed">>>>, <<>>)]}

\* ---------------------------------------------------------------- actions

Assign(s) ==
    /\ pc' = s.pc
    /\ request' = s.request
    /\ externalsObj' = s.externalsObj
    /\ buildIteration' = s.buildIteration
    /\ caught' = s.caught
    /\ buildArgs' = s.buildArgs
    /\ compileArgs' = s.compileArgs
    /\ writes' = s.writes
    /\ telemetry' = s.telemetry
    /\ compiled' = s.compiled
    /\ pending' = s.pending
    /\ settled' = s.settled
    /\ result' = s.result
    /\ thrown' = s.thrown

Init ==
    /\ pc = "idle"
    /\ request \in Requests
    /\ externalsObj = request.externals
    /\ buildIteration = 0
    /\ caught = Absent
    /\ buildArgs = <<>>
    /\ compileArgs = <<>>
    /\ writes = <<>>
    /\ telemetry = <<>>
    /\ compiled = Absent
    /\ pending = Absent
    /\ settled = <<>>
    /\ result = Absent
    /\ thrown = Absent

\* the caller calls buildPackageIgnoringMissingDeps with its request
Call ==
    /\ pc = "idle"
    /\ \E failAt \in FailPoints(request) :
          Assign(CallBuild(State, request, failAt))

\* the compiler calls back (lines 116-119)
CompilerCallback ==
    /\ pc = "compiling"
    /\ \E outcome \in CompileOutcomes :
          \E failAt \in RebuildFailPoints(State,
                          InterpretOutcome(buildArgs[Len(buildArgs)], outcome).error) :
             Assign(CompileDone(State, outcome, failAt))

\* getDependencySizes settles
DependencySizes ==
    /\ pc = "sizing"
    /\ \E sizes \in SizesOutcomes :
          \E failAt \in RebuildFailPoints(State, sizes.error) :
             Assign(SizesDone(State, sizes, failAt))

Next == Call \/ CompilerCallback \/ DependencySizes

Spec == Init /\ [][Next]_vars

\* CompilerCallback again, for one outcome: buildPackage is left holding
\* that outcome, or nothing once a rebuild has started
CalledBackWith(outcome) ==
    /\ pc = "compiling"
    /\ compiled' \in {Some(outcome), Absent}
    /\ \E failAt \in RebuildFailPoints(State,
                        InterpretOutcome(buildArgs[Len(buildArgs)], outcome).error) :
          Assign(CompileDone(State, outcome, failAt))

\* the compiler calls back for every invocation (compiler.run calls its
\* callback once) and getDependencySizes settles
FairSpec ==
    /\ Spec
    /\ WF_vars(\E outcome \in CompileOutcomes : CalledBackWith(outcome))
    /\ WF_vars(DependencySizes)

\* ----------------------------------------------------------------- claims

Finished == pc \in {"returned", "threw"}
LastBuild == settled[Len(settled)]
FirstFailed == settled # <<>> /\ ~settled[1].ok

\* the retry condition as the specification words it
EligibleFailure(e) ==
    /\ e.kind = "MissingDependencyError"
    /\ Len(e.missingModules) <= 6
    /\ \A i \in 1..Len(e.missingModules) : isValidNPMName(e.missingModules[i])

\* C1: buildPackage is called a second time if and only if the first call
\* failed with a MissingDependencyError of at most 6 missing modules, all
\* of them valid npm names; then it is called exactly once more, and after
\* any other first failure the compiler is not invoked a second time.
C1_RetryGate ==
    /\ Len(buildArgs) = 2 <=> (FirstFailed /\ EligibleFailure(settled[1].error))
    /\ Len(buildArgs) <= 2
    /\ (FirstFailed /\ ~EligibleFailure(settled[1].error))
          => (Len(compileArgs) <= 1 /\ Finished)

C1_Witness ==
    /\ Len(buildArgs) = 2
    /\ Len(settled[1].error.missingModules) = 6
    /\ Len(compileArgs) = 2

\* C2: in every call buildPackage, and so the compiler, is invoked at most
\* twice; when the retried build fails, whatever its error, the call has
\* ended by throwing, and an ended call takes no further step.
C2_AtMostTwoBuilds ==
    /\ Len(buildArgs) <= 2
    /\ Len(compileArgs) <= Len(buildArgs)
    /\ Len(settled) <= 2
    /\ (Len(settled) = 2 /\ ~settled[2].ok)
          => (pc = "threw" /\ thrown = Some(settled[2].error))
    /\ Finished => ~ENABLED Next

C2_Witness ==
    /\ Len(settled) = 2
    /\ ~settled[2].ok
    /\ EligibleFailure(settled[2].error)
    /\ pc = "threw"

\* C3: the request of the retry has the name, the install path and the
\* options of the original and externals whose externalPackages are the
\* original list followed by the missing modules, every other externals
\* field equal; the caller's externals object never changes.
C3_RetryRequest ==
    /\ externalsObj = request.externals
    /\ Len(buildArgs) >= 1 => buildArgs[1] = request
    /\ Len(buildArgs) >= 2 =>
          /\ buildArgs[2].name = request.name
          /\ buildArgs[2].installPath = request.installPath
          /\ buildArgs[2].options = request.options
          /\ DOMAIN buildArgs[2].externals = DOMAIN request.externals
          /\ buildArgs[2].externals.externalPackages =
                request.externals.externalPackages
                    \o settled[1].error.missingModules
          /\ buildArgs[2].externals.externalBuiltIns =
                request.externals.externalBuiltIns

C3_Witness ==
    /\ pc = "returned"
    /\ Len(buildArgs) = 2
    /\ request.externals.externalPackages # <<>>
    /\ Len(buildArgs[2].externals.externalPackages) = 3

\* C4: a call that ended by throwing has, as its last build-telemetry
\* record, a failure record with the thrown error and iteration 2.
C4_FailureTelemetry ==
    pc = "threw" =>
        /\ telemetry # <<>>
        /\ ~telemetry[Len(telemetry)].success
        /\ telemetry[Len(telemetry)].error = thrown
        /\ telemetry[Len(telemetry)].buildIteration = 2

\* C5: a call that returned after one build returns exactly that build's
\* result, without an ignoredMissingDependencies field, after one success
\* telemetry record of iteration 1; a call that returned after a retry
\* returns the rebuilt result's fields plus ignoredMissingDependencies, the
\* missing modules of the first failure, after one success telemetry
\* record of iteration 2 with those missing modules.
C5_ReturnValue ==
    pc = "returned" =>
        /\ Len(telemetry) = 1
        /\ telemetry[1].success
        /\ telemetry[1].error = Absent
        /\ IF Len(settled) = 1
           THEN /\ settled[1].ok
                /\ result = Some(settled[1].value)
                /\ "ignoredMissingDependencies" \notin DOMAIN result[1]
                /\ telemetry[1].buildIteration = 1
                /\ telemetry[1].missingModules = Absent
           ELSE /\ Len(settled) = 2
                /\ ~settled[1].ok
                /\ settled[2].ok
                /\ IsSome(result)
                /\ DOMAIN result[1] = DOMAIN settled[2].value
                                        \cup {"ignoredMissingDependencies"}
                /\ \A f \in DOMAIN settled[2].value :
                      result[1][f] = settled[2].value[f]
                /\ result[1].ignoredMissingDependencies =
                      settled[1].error.missingModules
                /\ telemetry[1].buildIteration = 2
                /\ telemetry[1].missingModules =
                      Some(settled[1].error.missingModules)

C5_Witness ==
    /\ pc = "returned"
    /\ Len(settled) = 2
    /\ result[1].assets # <<>>
    /\ "dependencySizes" \in DOMAIN result[1]

\* C6: a request with splitCustomImports set and customImports absent or
\* empty makes buildPackage return {assets: []} with no entry file written
\* and no compiler invocation.
C6_EmptySplit ==
    (/\ pc # "idle"
     /\ request.options.splitCustomImports
     /\ \/ ~IsSome(request.options.customImports)
        \/ request.options.customImports[1] = <<>>)
    => /\ Len(settled) = 1
       /\ settled[1].ok
       /\ settled[1].value = [assets |-> <<>>]
       /\ writes = <<>>
       /\ compileArgs = <<>>

C6_Witness ==
    /\ pc = "returned"
    /\ request.options.splitCustomImports
    /\ ~IsSome(request.options.customImports)

\* C7: when the compiler called back without a stats object, buildPackage
\* failed with a BuildError wrapping the invocation error if there was
\* one, and with an UnexpectedBuildError if there was none.
C7_NoStatsError ==
    (Finished /\ IsSome(compiled) /\ ~compiled[1].hasStats)
    => /\ ~LastBuild.ok
       /\ IF IsSome(compiled[1].error)
          THEN /\ LastBuild.error.kind = "BuildError"
               /\ LastBuild.error.originalError = compiled[1].error
          ELSE LastBuild.error.kind = "UnexpectedBuildError"

\* the latest buildPackage call got stats with compiler-level errors
HadCompilerErrors ==
    /\ Finished
    /\ IsSome(compiled)
    /\ compiled[1].hasStats
    /\ ~compiled[1].jsonNull
    /\ compiled[1].compErrors # <<>>

\* what _parseMissingModules gives for the latest compiler errors
ClassifierResult == parseMissingModules(compiled[1].compErrors)

\* the failure for a non-empty list of missing modules, alone telling
\* whether the list is the package name alone
FailureForMissing(list, alone) ==
    /\ ~LastBuild.ok
    /\ LastBuild.error.kind = "EntryPointError" <=> alone
    /\ ~alone => /\ LastBuild.error.kind = "MissingDependencyError"
                 /\ LastBuild.error.missingModules = list

FailureForParsed(parsed) ==
    (parsed.ok /\ parsed.value # <<>>)
    => FailureForMissing(parsed.value,
                         Len(parsed.value) = 1
                            /\ parsed.value[1] = request.name)

\* C8: when the stats hold compiler-level errors and the classifier yields
\* a non-empty list, buildPackage fails with EntryPointError exactly when
\* the list is the package name alone, and otherwise with a
\* MissingDependencyError whose missingModules are the classifier's list.
C8_MissingModulesError ==
    HadCompilerErrors => FailureForParsed(ClassifierResult)

C8_Witness ==
    /\ HadCompilerErrors
    /\ LastBuild.error.kind = "MissingDependencyError"
    /\ Len(LastBuild.error.missingModules) = 2
    /\ LastBuild.error.missingModules[1] = request.name

\* the latest buildPackage call got stats of a clean build
HadCleanBuild ==
    /\ IsSome(compiled)
    /\ compiled[1].hasStats
    /\ ~compiled[1].jsonNull
    /\ compiled[1].compErrors = <<>>

Emitted == IF IsSome(compiled[1].assets) THEN compiled[1].assets[1] ELSE <<>>

\* the emitted assets that are neither of the runtime chunk nor a licence
Kept ==
    {i \in 1..Len(Emitted) :
        /\ "runtime" \notin Range(Emitted[i].chunkNames)
        /\ ~(/\ Emitted[i].name # <<>>
             /\ Emitted[i].name[Len(Emitted[i].name)] = LICENSE)}

\* '<name>.bundle.<ext>'
IsBundleName(n) == \E i \in 2..(Len(n) - 1) : n[i] = BUNDLE

\* C9: the assets buildPackage returns on a clean build are one record per
\* emitted asset outside the runtime chunk and not ending in LICENSE.txt,
\* in the order emitted: name and type are the parts of the file name
\* around '.bundle.', size is the reported size, gzip the gzip length of
\* the compiled bytes, and parse is null when calcParse is false.
C9_Assets ==
    (HadCleanBuild /\ pc = "returned" /\ LastBuild.ok)
    => LET assets == LastBuild.value.assets
       IN  /\ Len(assets) = Cardinality(Kept)
           /\ \A i \in Kept :
                 LET rec == assets[Cardinality({j \in Kept : j <= i})]
                 IN  /\ rec.name # <<>>
                     /\ rec.type # <<>>
                     /\ rec.name \o <<BUNDLE>> \o rec.type = Emitted[i].name
                     /\ rec.size = Emitted[i].size
                     /\ rec.gzip = Emitted[i].contents.gzipBytes
                     /\ ~request.options.calcParse => rec.parse = Absent

C9_Witness ==
    /\ HadCleanBuild
    /\ pc = "returned"
    /\ ~request.options.calcParse
    /\ Len(Emitted) = 2
    /\ Kept = {2}
    /\ LastBuild.value.assets[1].size = 1000
    /\ LastBuild.value.assets[1].gzip = 400

\* C10: on a clean build, an asset that survives the filter and is not
\* named '<name>.bundle.<ext>' fails buildPackage with UnexpectedBuildError
\* and no asset list; assets the filter removes never cause that failure.
C10_UnrecognisedAsset ==
    (HadCleanBuild /\ Finished)
    => IF \E i \in Kept : ~IsBundleName(Emitted[i].name)
       THEN /\ ~LastBuild.ok
            /\ LastBuild.error.kind = "UnexpectedBuildError"
            /\ pc = "threw"
            /\ result = Absent
       ELSE LastBuild.ok \/ LastBuild.error.kind # "UnexpectedBuildError"

C10_Witness ==
    /\ HadCleanBuild
    /\ pc = "threw"
    /\ Len(Emitted) = 2
    /\ Kept = {1, 2}
    /\ IsBundleName(Emitted[1].name)
    /\ ~IsBundleName(Emitted[2].name)
    /\ LastBuild.error.kind = "UnexpectedBuildError"

\* the list xs with the elements at i and j exchanged
Swap(xs, i, j) ==
    [k \in 1..Len(xs) |->
        IF k = i THEN xs[j] ELSE IF k = j THEN xs[i] ELSE xs[k]]

\* a is 'b/...'
IsSubPath(a, b) == Len(a) > Len(b) + 1 /\ startsWith(a, b \o <<"/">>)

NoRepeats(names) ==
    \A i, j \in 1..Len(names) : names[i] = names[j] => i = j

NoSubPaths(names) ==
    \A i, j \in 1..Len(names) : ~IsSubPath(names[i], names[j])

SameNamesUnderSwaps(errors, names) ==
    \A i, j \in 1..Len(errors) :
        /\ parseMissingModules(Swap(errors, i, j)).ok
        /\ Range(parseMissingModules(Swap(errors, i, j)).value) = Range(names)

\* C11: the list _parseMissingModules returns has no repeated name and no
\* name that is 'X/...' for another name X of the list, and the set of its
\* names stays the same when two errors of the input exchange places.
C11_ClassifierNames ==
    (HadCompilerErrors /\ ClassifierResult.ok)
    => /\ NoRepeats(ClassifierResult.value)
       /\ NoSubPaths(ClassifierResult.value)
       /\ SameNamesUnderSwaps(compiled[1].compErrors, ClassifierResult.value)

\* the import path a well-formed 'module not found' message cites
ImportPath(err) ==
    SubSeq(err.error,
           (CHOOSE i \in 1..Len(err.error) : err.error[i] = OPEN) + 1,
           (CHOOSE j \in 1..Len(err.error) : err.error[j] = CLOSE) - 1)

\* the first '/' of p at or after i (Len(p) + 1 when there is none)
SlashFrom(p, i) ==
    IF \E k \in i..Len(p) : p[k] = "/"
    THEN CHOOSE k \in i..Len(p) :
            p[k] = "/" /\ \A m \in i..(k - 1) : p[m] # "/"
    ELSE Len(p) + 1

\* '@scope/name' when p starts with '@', the first segment otherwise
PackagePrefix(p) ==
    IF p[1] = "@"
    THEN SubSeq(p, 1, SlashFrom(p, SlashFrom(p, 1) + 1) - 1)
    ELSE SubSeq(p, CHOOSE k \in 1..Len(p) :
                       p[k] # "/" /\ \A m \in 1..(k - 1) : p[m] = "/",
                SlashFrom(p, CHOOSE k \in 1..Len(p) :
                       p[k] # "/" /\ \A m \in 1..(k - 1) : p[m] = "/") - 1)

\* the package names of the 'module not found' errors of a list
CitedPackages(errors) ==
    {PackagePrefix(ImportPath(errors[i])) :
        i \in {k \in 1..Len(errors) : errors[k].name = "ModuleNotFoundError"}}

\* the names of a result of _parseMissingModules are cited package names,
\* and a cited package name left out is 'X/...' for another one
NamesAreCitedPackages(parsed, cited) ==
    parsed.ok
    => /\ Range(parsed.value) \subseteq cited
       /\ \A n \in cited :
             \/ n \in Range(parsed.value)
             \/ \E m \in cited : IsSubPath(n, m)
       /\ LastBuild.error.kind = "MissingDependencyError"
             => LastBuild.error.missingModules = parsed.value

C13_ThrownError ==
    /\ pc = "threw" =>
          /\ Len(settled) = Len(buildArgs)
          /\ ~LastBuild.ok
          /\ thrown = Some(LastBuild.error)
          /\ Len(settled) = 1 => ~EligibleFailure(settled[1].error)
          /\ Len(settled) = 2 => /\ EligibleFailure(settled[1].error)
                                 /\ thrown = Some(settled[2].error)
    /\ (Finished /\ FirstFailed /\ thrown # Some(settled[1].error))
          => Len(buildArgs) = 2

C13_Witness ==
    /\ pc = "threw"
    /\ Len(settled) = 2
    /\ settled[1].error.kind = "MissingDependencyError"
    /\ settled[2].error.kind = "BuildError"
    /\ thrown[1].kind = "BuildError"

\* some text of a JSON summary's error list holds "Unexpected character '#'"
HasHash(jsonErrors) ==
    \E i \in 1..Len(jsonErrors) :
        \E k \in 1..Len(jsonErrors[i]) :
            jsonErrors[i][k] = "Unexpected character '#'"

\* how buildPackage failed, parsed being what the classifier gave for
\* the compiler's errors
FailureByKind(parsed) ==
    /\ (parsed.ok /\ parsed.value = <<>>)
       => /\ ~LastBuild.ok
          /\ pc = "threw"
          /\ thrown = Some(LastBuild.error)
          /\ Len(buildArgs) = Len(settled)
          /\ IF HasHash(compiled[1].jsonErrors)
             THEN /\ LastBuild.error.kind = "CLIBuildError"
                  /\ LastBuild.error.originalError = compiled[1].jsonErrors
             ELSE IF compiled[1].jsonErrors # <<>>
             THEN /\ LastBuild.error.kind = "BuildError"
                  /\ LastBuild.error.originalError = compiled[1].jsonErrors
             ELSE LastBuild.error.kind = "UnexpectedBuildError"
    /\ (parsed.ok /\ parsed.value # <<>>)
       => /\ ~LastBuild.ok
          /\ LastBuild.error.kind
                \in {"EntryPointError", "MissingDependencyError"}

\* C14: with compiler-level errors and no missing module, buildPackage
\* fails with CLIBuildError when the JSON summary's errors hold
\* "Unexpected character '#'", with BuildError carrying the summary's
\* errors when they are non-empty without it, and with
\* UnexpectedBuildError when they are empty; with a non-empty list of
\* missing modules the failure is an EntryPointError or a
\* MissingDependencyError whatever the summary holds; and after the
\* former failures the call has thrown that error without another build.
C14_OtherCompilerErrors ==
    HadCompilerErrors => FailureByKind(ClassifierResult)

C14_Witness ==
    /\ HadCompilerErrors
    /\ Len(settled) = 1
    /\ compiled[1].compErrors =
          <<[name |-> "ModuleParseError",
             error |-> <<"Module parse failed: ", HashError>>]>>
    /\ HasHash(compiled[1].jsonErrors)
    /\ thrown[1].kind = "CLIBuildError"

\* the custom imports of the request are absent or empty
NoCustomImports ==
    \/ ~IsSome(request.options.customImports)
    \/ request.options.customImports[1] = <<>>

\* C15: an entry file written has the named-bindings form only for
\* custom imports that are provided and non-empty, naming exactly them;
\* with custom imports absent or empty the file written outside split
\* mode imports the package's default export.
C15_EntryForm ==
    \A i \in 1..Len(writes) :
        /\ writes[i].content.pkg = request.name
        /\ writes[i].content.form = "named"
              => /\ writes[i].content.names # <<>>
                 /\ Range(writes[i].content.names)
                       \subseteq Range(request.options.customImports[1])
        /\ NoCustomImports
              => /\ writes[i].content.form = "default"
                 /\ writes[i].content.names = <<>>

\* an entry file with this content was written at path
Written(path, esm, form, names) ==
    \E i \in 1..Len(writes) :
        /\ writes[i].path = path
        /\ writes[i].content =
              [esm |-> esm, form |-> form, names |-> names,
               pkg |-> request.name]

\* C16: the entry map of every compiler invocation is non-empty; in split
\* mode its keys are the custom import names, each pointing at a written
\* module-syntax file that imports that name alone; otherwise its only
\* key is 'main', pointing at a written non-module-syntax file that names
\* all custom imports, or the whole package when there are none given.
C16_EntryMap ==
    \A k \in 1..Len(compileArgs) :
        /\ DOMAIN compileArgs[k].entry # {}
        /\ IF request.options.splitCustomImports
           THEN /\ IsSome(request.options.customImports)
                /\ DOMAIN compileArgs[k].entry
                      = Range(request.options.customImports[1])
                /\ \A n \in DOMAIN compileArgs[k].entry :
                      Written(compileArgs[k].entry[n], TRUE, "named", <<n>>)
           ELSE /\ DOMAIN compileArgs[k].entry = {"main"}
                /\ IF IsSome(request.options.customImports)
                   THEN Written(compileArgs[k].entry["main"], FALSE, "named",
                                request.options.customImports[1])
                   ELSE Written(compileArgs[k].entry["main"], FALSE,
                                "default", <<>>)

C16_Witness ==
    /\ Len(compileArgs) = 2
    /\ request.options.splitCustomImports
    /\ DOMAIN compileArgs[2].entry = {"i", "j"}
    /\ compileArgs[2].entry["i"] # compileArgs[2].entry["j"]

\* the number of entry files one buildPackage call of the request writes
EntryFiles ==
    IF request.options.splitCustomImports
    THEN IF IsSome(request.options.customImports)
         THEN Len(request.options.customImports[1]) ELSE 0
    ELSE 1

\* some buildPackage call so far wrote fewer entry files than it needs: a
\* write failed
WriteFailed == Len(writes) < Len(buildArgs) * EntryFiles

\* every compiler invocation so far came after its attempt's entry files
CompiledAfterWrites ==
    \A k \in 1..Len(compileArgs) :
        /\ Len(writes) >= k * EntryFiles
        /\ \A n \in DOMAIN compileArgs[k].entry :
              \E i \in ((k - 1) * EntryFiles + 1)..(k * EntryFiles) :
                  writes[i].path = compileArgs[k].entry[n]

\* C17 as stated: once a write of an entry file failed, buildPackage has
\* failed with an EntryPointError and the call has thrown it with no
\* compiler invocation in the whole call; every compiler invocation comes
\* after all entry files of its attempt were written.
C17_NoCompilerCall ==
    /\ WriteFailed
          => /\ pc = "threw"
             /\ LastBuild.error.kind = "EntryPointError"
             /\ thrown = Some(LastBuild.error)
             /\ compileArgs = <<>>
    /\ CompiledAfterWrites

\* C17, amended: once a write of an entry file failed, buildPackage has
\* failed with an EntryPointError wrapping the failure and the call has
\* thrown it; the compiler was not invoked in that attempt nor after it
\* (never when the first attempt's write failed, once when the retried
\* attempt's did); every compiler invocation comes after all entry files
\* of its attempt were written.
C17_WriteFailure ==
    /\ WriteFailed
          => /\ pc = "threw"
             /\ LastBuild.error.kind = "EntryPointError"
             /\ LastBuild.error.originalError = <<<<"write failed">>>>
             /\ thrown = Some(LastBuild.error)
             /\ Len(settled) = Len(buildArgs)
             /\ Len(compileArgs) = Len(buildArgs) - 1
    /\ CompiledAfterWrites

C17_Witness ==
    /\ WriteFailed
    /\ pc = "threw"
    /\ Len(buildArgs) = 2
    /\ Len(compileArgs) = 1
    /\ Len(writes) = 3

\* the message holds "Can't resolve '<path>' in" with a non-empty path
HasPattern(msg) ==
    \E i, j \in 1..Len(msg) :
        msg[i] = "Can't resolve '" /\ msg[j] = "' in" /\ j >= i + 2

\* p holds '@scope/name': an '@', a '/'-free scope, a '/', a name
HasScopedName(p) ==
    \E i, k \in 1..Len(p) :
        /\ p[i] = "@"
        /\ k > i + 1
        /\ p[k] = "/"
        /\ \A m \in (i + 1)..(k - 1) : p[m] # "/"
        /\ k < Len(p)
        /\ p[k + 1] # "/"

\* a 'module not found' error without the pattern, or whose path gives no
\* package name
Malformed(err) ==
    /\ err.name = "ModuleNotFoundError"
    /\ \/ ~HasPattern(err.error)
       \/ IF ImportPath(err)[1] = "@"
          THEN ~HasScopedName(ImportPath(err))
          ELSE \A k \in 1..Len(ImportPath(err)) : ImportPath(err)[k] = "/"

\* the classifier threw UnexpectedBuildError and the call threw it
UnexpectedFailure(parsed) ==
    /\ ~parsed.ok
    /\ parsed.value = <<>>
    /\ parsed.error.kind = "UnexpectedBuildError"
    /\ ~LastBuild.ok
    /\ LastBuild.error = parsed.error
    /\ pc = "threw"
    /\ thrown = Some(LastBuild.error)
    /\ Len(buildArgs) = Len(settled)

\* C18: when some 'module not found' error of the list is malformed,
\* _parseMissingModules fails with UnexpectedBuildError and gives no list,
\* whatever the other errors are; buildPackage fails with that error and
\* the call throws it without another build.
C18_MalformedError ==
    (/\ HadCompilerErrors
     /\ \E i \in 1..Len(compiled[1].compErrors) :
           Malformed(compiled[1].compErrors[i]))
    => UnexpectedFailure(ClassifierResult)

C18_Witness ==
    /\ HadCompilerErrors
    /\ Len(buildArgs) = 1
    /\ compiled[1].compErrors =
          <<NotFound(<<"a">>), NotFound(<<"@", "s">>)>>
    /\ thrown[1].kind = "UnexpectedBuildError"

\* C19 as stated: the iteration of every build-telemetry record is 1 plus
\* the number of retried buildPackage calls of the call.
C19_IterationCountsRetries ==
    \A i \in 1..Len(telemetry) :
        telemetry[i].buildIteration = 1 + (Len(buildArgs) - 1)

\* C19, amended: the counter starts at 1 and is incremented once when the
\* first buildPackage call fails, retried or not; the iteration of every
\* build-telemetry record is 1 when the first build succeeded and 2 when
\* it failed.
C19_Iteration ==
    /\ pc # "idle" => buildIteration = IF FirstFailed THEN 2 ELSE 1
    /\ \A i \in 1..Len(telemetry) :
          /\ telemetry[i].buildIteration = IF FirstFailed THEN 2 ELSE 1
          /\ telemetry[i].buildIteration = buildIteration
    /\ Len(buildArgs) = 2 => buildIteration = 2

C19_Witness ==
    /\ pc = "threw"
    /\ Len(buildArgs) = 1
    /\ Len(telemetry) = 1
    /\ telemetry[1].buildIteration = 2

\* C20: when every compiler invocation calls back and getDependencySizes
\* settles, a call that was made ends, by returning or by throwing.
C20_Terminates == (pc # "idle") ~> Finished

C20_Witness ==
    /\ Finished
    /\ Len(compileArgs) = 2
    /\ "dependencySizes" \in DOMAIN LastBuild.value

====
